---- MODULE Spec2Model ----
(***************************************************************************)
(* Apple Slicer (src/slicer.py, src/apple.py): parsing of the exchange     *)
(* rate file, parsing of the sales reports, and the allocation of sales    *)
(* to Apple's legal entities.                                              *)
(***************************************************************************)
EXTENDS Integers, Sequences, FiniteSets, TLC

(***************************************************************************)
(* decimal.Decimal arithmetic.  A Decimal is modelled by its numeric value *)
(* <<c, e>> = c * 10^e, kept normalised (no trailing zero in c, zero is    *)
(* <<0, 0>>), so that equality of pairs is Python's numeric ==.  Every     *)
(* arithmetic result is rounded half-even to the context precision, as the *)
(* default decimal context does.  Python's default precision is 28         *)
(* significant digits; the model scales it down to DecPrec digits and      *)
(* scales the inputs with it: amounts read from files are short decimals   *)
(* whose sums are exact, quotients fill the whole precision.               *)
(***************************************************************************)
DecPrec == 3

RECURSIVE Pow10(_)
Pow10(n) == IF n <= 0 THEN 1 ELSE 10 * Pow10(n - 1)

Abs(n) == IF n < 0 THEN -n ELSE n

Sgn(n) == IF n < 0 THEN -1 ELSE IF n > 0 THEN 1 ELSE 0

RECURSIVE NumDigits(_)
NumDigits(n) == IF n < 10 THEN 1 ELSE 1 + NumDigits(n \div 10)

RECURSIVE DecNorm(_, _)
DecNorm(c, e) ==
    IF c = 0 THEN <<0, 0>>
    ELSE IF c % 10 = 0 THEN DecNorm(c \div 10, e + 1)
    ELSE <<c, e>>

\* round the exact value c * 10^e half-even to DecPrec significant digits
DecRound(c, e) ==
    LET a == Abs(c)
        k == NumDigits(a) - DecPrec
    IN  IF k <= 0 THEN DecNorm(c, e)
        ELSE LET q    == a \div Pow10(k)
                 r    == a % Pow10(k)
                 half == 5 * Pow10(k - 1)
                 up   == r > half \/ (r = half /\ q % 2 = 1)
             IN  DecNorm(Sgn(c) * (IF up THEN q + 1 ELSE q), e + k)

DecZero == <<0, 0>>

DecOne == <<1, 0>>

DecNeg(x) == <<-x[1], x[2]>>

DecAbs(x) == <<Abs(x[1]), x[2]>>

DecMul(x, y) == DecRound(x[1] * y[1], x[2] + y[2])

\* x + y: exact sum, then rounded; an operand too small to reach the rounding
\* position of the other one leaves it unchanged
DecAdd(x, y) ==
    IF x[1] = 0 THEN y
    ELSE IF y[1] = 0 THEN x
    ELSE LET hi == IF x[2] >= y[2] THEN x ELSE y
             lo == IF x[2] >= y[2] THEN y ELSE x
             d  == hi[2] - lo[2]
         IN  IF NumDigits(Abs(hi[1])) + d > 2 * DecPrec + 1 THEN hi
             ELSE DecRound(hi[1] * Pow10(d) + lo[1], lo[2])

DecSub(x, y) == DecAdd(x, DecNeg(y))

RECURSIVE DivShift(_, _, _)
DivShift(a, b, k) == IF a >= b * Pow10(DecPrec) THEN <<a, k>> ELSE DivShift(a * 10, b, k + 1)

\* x / y for y # 0: DecPrec + 1 quotient digits and a sticky digit, then rounded
DecDiv(x, y) ==
    IF x[1] = 0 THEN DecZero
    ELSE LET b  == Abs(y[1])
             s  == DivShift(Abs(x[1]), b, 0)
             q  == s[1] \div b
             r  == s[1] % b
             q2 == q * 10 + (IF r > 0 THEN 1 ELSE 0)
         IN  DecRound(Sgn(x[1]) * Sgn(y[1]) * q2, x[2] - y[2] - s[2] - 1)

\* x < y, x <= y on numeric values (rounding keeps the sign of a difference)
DecLess(x, y) == DecSub(x, y)[1] < 0

DecLeq(x, y) == x = y \/ DecLess(x, y)

(***************************************************************************)
(* Text.  A Python str is a sequence of characters; file names, the label  *)
(* column of the rate file and currency keys are such sequences, because   *)
(* the code searches, matches and concatenates them.                       *)
(***************************************************************************)
UpperCase == <<"A","B","C","D","E","F","G","H","I","J","K","L","M","N","O","P","Q","R","S","T","U","V","W","X","Y","Z","Í">>

LowerCase == <<"a","b","c","d","e","f","g","h","i","j","k","l","m","n","o","p","q","r","s","t","u","v","w","x","y","z","í">>

AsciiUpper == {UpperCase[i] : i \in 1..26}

LowerChar(ch) ==
    IF \E i \in 1..Len(UpperCase) : UpperCase[i] = ch
    THEN LowerCase[CHOOSE i \in 1..Len(UpperCase) : UpperCase[i] = ch]
    ELSE ch

\* str.lower()
StrLower(s) == [i \in 1..Len(s) |-> LowerChar(s[i])]

\* sub in s
StrContains(s, sub) ==
    \E i \in 0..(Len(s) - Len(sub)) : \A j \in 1..Len(sub) : s[i + j] = sub[j]

\* s[-n:] for Len(s) >= n
StrTail(s, n) == SubSeq(s, Len(s) - n + 1, Len(s))

\* position of a character in the code point order of the characters that keys
\* are made of (upper case ASCII letters)
CharOrd(ch) == CHOOSE i \in 1..Len(UpperCase) : UpperCase[i] = ch

\* s < t in Python's order of str (code point by code point, a prefix first)
RECURSIVE StrLess(_, _)
StrLess(s, t) ==
    IF t = <<>> THEN FALSE
    ELSE IF s = <<>> THEN TRUE
    ELSE IF s[1] # t[1] THEN CharOrd(s[1]) < CharOrd(t[1])
    ELSE StrLess(Tail(s), Tail(t))

\* sorted(S) for a set of str
RECURSIVE StrSorted(_)
StrSorted(S) ==
    IF S = {} THEN <<>>
    ELSE LET m == CHOOSE x \in S : \A y \in S \ {x} : StrLess(x, y)
         IN  <<m>> \o StrSorted(S \ {m})

(***************************************************************************)
(* dict.  Python dicts keep insertion order, and the order of iteration    *)
(* decides the order of the Decimal additions, so a dict is modelled as    *)
(* the sequence of its <<key, value>> items in insertion order.            *)
(***************************************************************************)
DictHas(d, k) == \E i \in 1..Len(d) : d[i][1] = k

DictGet(d, k) == d[CHOOSE i \in 1..Len(d) : d[i][1] = k][2]

DictSet(d, k, v) ==
    IF DictHas(d, k)
    THEN [i \in 1..Len(d) |-> IF d[i][1] = k THEN <<k, v>> ELSE d[i]]
    ELSE Append(d, <<k, v>>)

DictKeys(d) == [i \in 1..Len(d) |-> d[i][1]]

DictKeySet(d) == {d[i][1] : i \in 1..Len(d)}

(***************************************************************************)
(* Configuration of slicer.py                                              *)
(***************************************************************************)
currency_data_filename == <<"f","i","n","a","n","c","i","a","l","_","r","e","p","o","r","t",".","c","s","v">>

USD == <<"U","S","D">>

\* usd_regions_localizations: the regions in the dict's order, and their spellings
usd_regions == << <<"A","P">>, <<"L","L">>, <<"W","W">> >>

usd_regions_localizations(region) ==
    CASE region = <<"A","P">> ->
           { <<"P","a","c","i","f">>, <<"P","a","c","í","f">>, <<"P","a","z","i","f">> }
      [] region = <<"L","L">> ->
           { <<"L","a","t","i","n">>, <<"L","a","t","e","i","n">> }
      [] region = <<"W","W">> ->
           { <<"o","f"," ","W","o","r","l","d">>, <<"d","u"," ","m","o","n","d","e">>,
             <<"d","e","r"," ","W","e","l","t">>, <<"d","e","l"," ","m","o","n","d","o">>,
             <<"d","e","l"," ","m","u","n","d","o">> }

(***************************************************************************)
(* parse_currency_data.  A row of the rate file is the sequence of its     *)
(* csv fields.  A field is its text; for a field that holds a number, the  *)
(* model keeps the Decimal that Decimal(text.replace(',', '')) yields      *)
(* instead of the digits.                                                  *)
(***************************************************************************)
Txt(s) == [num |-> FALSE, s |-> s, v |-> DecZero]

Num(d) == [num |-> TRUE, s |-> <<"#">>, v |-> d]

\* re.search(r'\(([A-Z]{3})\)$', label): the match, or <<>> for None
CurrencySymbol(label) ==
    IF /\ Len(label) >= 5
       /\ label[Len(label) - 4] = "("
       /\ label[Len(label)] = ")"
       /\ \A i \in 1..3 : label[Len(label) - 4 + i] \in AsciiUpper
    THEN SubSeq(label, Len(label) - 3, Len(label) - 1)
    ELSE <<>>

\* LabelNamesRegion that compares without lower()
LabelNamesRegion_CaseSensitive(label, region) ==
    \E spelling \in usd_regions_localizations(region) : StrContains(label, spelling)

\* any(spelling.lower() in label.lower() for spelling in localized_region_spellings)
LabelNamesRegion(label, region) ==
    \E spelling \in usd_regions_localizations(region) :
        StrContains(StrLower(label), StrLower(spelling))

\* the key of a USD row: the first region of the table that the label names
RECURSIVE UsdLabelKey(_, _)
UsdLabelKey(label, regions) ==
    IF regions = <<>> THEN USD
    ELSE IF LabelNamesRegion(label, Head(regions)) THEN USD \o Head(regions)
    ELSE UsdLabelKey(label, Tail(regions))

RateKey(label) ==
    LET currency == CurrencySymbol(label)
    IN  IF currency = USD THEN UsdLabelKey(label, usd_regions) ELSE currency

\* the state of the loop before the first row (lines 88-95)
RateStart ==
    [ line |-> 0,
      column_index_amount_pre_tax |-> 3,
      column_index_adjustments |-> 5,
      column_index_amount_after_tax |-> 7,
      column_index_earnings |-> 9,
      result |-> <<>>,
      warnings |-> 0,
      status |-> "loop" ]

\* the exception that Decimal(fields[i].replace(',', '')) raises, or "" for none
FieldError(fields, i) ==
    IF i + 1 > Len(fields) THEN "IndexError"
    ELSE IF ~fields[i + 1].num THEN "InvalidOperation"
    ELSE ""

\* RateEntry without the branch of lines 169-174: the row is recorded like a row
\* without payout instead of being skipped
RateEntry_NoSkip(st, currency, amount_pre_tax, adjustments, amount_after_tax, earnings) ==
    IF amount_pre_tax = DecZero
    THEN [st EXCEPT !.result = DictSet(@, currency, <<DecZero, DecOne, adjustments>>)]
    ELSE [st EXCEPT !.result =
              DictSet(@, currency,
                      << DecDiv(earnings, amount_after_tax),
                         DecSub(DecOne, DecAbs(DecDiv(
                             DecSub(amount_pre_tax, DecSub(amount_after_tax, adjustments)),
                             amount_pre_tax))),
                         adjustments >>)]

\* lines 159-183: the entry of a data row whose four numbers are read
RateEntry(st, currency, amount_pre_tax, adjustments, amount_after_tax, earnings) ==
    LET amount_after_tax_no_adjustments == DecSub(amount_after_tax, adjustments)
        tax == DecSub(amount_pre_tax, amount_after_tax_no_adjustments)
    IN  IF amount_after_tax = DecZero
        THEN [st EXCEPT !.result = DictSet(@, currency, <<DecZero, DecOne, adjustments>>)]
        ELSE IF amount_pre_tax = DecZero /\ amount_after_tax_no_adjustments # DecZero
        THEN [st EXCEPT !.warnings = @ + 1]
        ELSE IF amount_pre_tax = DecZero
        THEN [st EXCEPT !.status = "DivisionUndefined"]
        ELSE LET exchange_rate == DecDiv(earnings, amount_after_tax)
                 tax_factor == DecSub(DecOne, DecAbs(DecDiv(tax, amount_pre_tax)))
             IN  [st EXCEPT !.result =
                      DictSet(@, currency, <<exchange_rate, tax_factor, adjustments>>)]

\* lines 137-157: a row after line 3
RateDataRow(st, fields) ==
    IF Len(fields) = 0 THEN [st EXCEPT !.status = "IndexError"]
    ELSE IF Len(fields[1].s) = 0 THEN [st EXCEPT !.status = "break"]
    ELSE IF CurrencySymbol(fields[1].s) = <<>> THEN [st EXCEPT !.status = "exit"]
    ELSE LET cols == << st.column_index_amount_pre_tax, st.column_index_adjustments,
                        st.column_index_amount_after_tax, st.column_index_earnings >>
             bad  == {k \in 1..4 : FieldError(fields, cols[k]) # ""}
         IN  IF bad # {}
             THEN [st EXCEPT !.status =
                      FieldError(fields, cols[CHOOSE k \in bad : \A j \in bad : k <= j])]
             ELSE RateEntry(st, RateKey(fields[1].s),
                            fields[cols[1] + 1].v, fields[cols[2] + 1].v,
                            fields[cols[3] + 1].v, fields[cols[4] + 1].v)

\* RateLine3 without the shift of lines 121-125
RateLine3_NoShift(st, fields) ==
    IF Len(fields) # 12 /\ Len(fields) # 13 THEN [st EXCEPT !.status = "exit"] ELSE st

\* lines 120-129: the column count of line 3 shifts the column indices
RateLine3(st, fields) ==
    LET shifted ==
            IF Len(fields) = 13
            THEN [st EXCEPT !.column_index_amount_pre_tax = @ + 1,
                            !.column_index_adjustments = @ + 1,
                            !.column_index_amount_after_tax = @ + 1,
                            !.column_index_earnings = @ + 1]
            ELSE st
    IN  IF Len(fields) # 12 /\ Len(fields) # 13
        THEN [shifted EXCEPT !.status = "exit"]
        ELSE shifted

\* RateRow without the check of line 1 (lines 108-116)
RateRow_NoLine1Check(st0, fields) ==
    LET st == [st0 EXCEPT !.line = @ + 1]
    IN  IF st.line = 3 THEN RateLine3(st, fields)
        ELSE IF st.line < 4 THEN st
        ELSE RateDataRow(st, fields)

\* lines 105-183: the body of the loop over the rows, for one row
RateRow(st0, fields) ==
    LET st == [st0 EXCEPT !.line = @ + 1]
    IN  IF st.line = 1
        THEN IF Len(fields) = 10 \/ Len(fields) # 13
             THEN [st EXCEPT !.status = "exit"]
             ELSE st
        ELSE IF st.line = 3 THEN RateLine3(st, fields)
        ELSE IF st.line < 4 THEN st
        ELSE RateDataRow(st, fields)

\* the loop over all rows of a file, until it ends, breaks, exits or raises
RECURSIVE RateLoop(_, _)
RateLoop(st, rows) ==
    IF rows = <<>> \/ st.status # "loop" THEN st
    ELSE RateLoop(RateRow(st, Head(rows)), Tail(rows))

(***************************************************************************)
(* parse_financial_reports.  A row of a sales report is modelled by the    *)
(* fields the code reads: date (line[0] contains '/'), quantity            *)
(* (int(line[5])), amount (Decimal(line[7])), currency (line[8]), product  *)
(* (line[12]) and countrycode (line[17]).                                  *)
(***************************************************************************)
\* re.match(r'.*_[A-Z][A-Z]\.txt$', filename)
IsReportName(filename) ==
    /\ Len(filename) >= 7
    /\ LET t == StrTail(filename, 7)
       IN  /\ t[1] = "_"
           /\ t[2] \in AsciiUpper
           /\ t[3] \in AsciiUpper
           /\ SubSeq(t, 4, 7) = <<".","t","x","t">>

\* lines 197-199: the files that the loop does not skip
IsScanned(filename) == filename # currency_data_filename /\ IsReportName(filename)

\* lines 229-233: the key of a USD country, from the name of the report file
RECURSIVE UsdFileKey(_, _)
UsdFileKey(filename, regions) ==
    IF regions = <<>> THEN USD
    ELSE IF StrContains(filename, <<"_">> \o Head(regions) \o <<".">>)
    THEN USD \o Head(regions)
    ELSE UsdFileKey(filename, Tail(regions))

SalesKey(filename, currency) ==
    IF currency = USD THEN UsdFileKey(filename, usd_regions) ELSE currency

\* AddSale that stores the row's quantity and amount instead of adding them
AddSale_Overwrite(countries, row) ==
    DictSet(countries, row.countrycode,
            DictSet(IF DictHas(countries, row.countrycode)
                    THEN DictGet(countries, row.countrycode) ELSE <<>>,
                    row.product, <<row.quantity, row.amount>>))

\* lines 218-222: add the row's quantity and amount to its country and product
AddSale(countries, row) ==
    LET products == IF DictHas(countries, row.countrycode)
                    THEN DictGet(countries, row.countrycode) ELSE <<>>
        quantity_and_amount == IF DictHas(products, row.product)
                               THEN DictGet(products, row.product)
                               ELSE <<0, DecZero>>
    IN  DictSet(countries, row.countrycode,
                DictSet(products, row.product,
                        << quantity_and_amount[1] + row.quantity,
                           DecAdd(quantity_and_amount[2], row.amount) >>))

\* line 213: Decimal(line[7]) raises InvalidOperation when the amount of a sales row
\* is not a number
SalesFieldError(row) == row.date /\ ~row.numeric

\* lines 203-233: the body of the loop over the rows of one file, for one row
SalesRow(st, filename, row) ==
    IF ~row.date THEN st
    ELSE [ countries  |-> AddSale(st.countries, row),
           currencies |-> DictSet(st.currencies, row.countrycode,
                                  SalesKey(filename, row.currency)) ]

\* lines 202-233: the loop over the rows of one file
RECURSIVE SalesLoop(_, _, _)
SalesLoop(st, filename, rows) ==
    IF rows = <<>> THEN st
    ELSE SalesLoop(SalesRow(st, filename, Head(rows)), filename, Tail(rows))

\* lines 196-235: the loop over the listing, for rows whose fields are read
RECURSIVE ScanListing(_, _)
ScanListing(st, dir) ==
    IF dir = <<>> THEN st
    ELSE ScanListing(IF IsScanned(Head(dir).name)
                     THEN SalesLoop(st, Head(dir).name, Head(dir).rows)
                     ELSE st,
                     Tail(dir))

(***************************************************************************)
(* apple.py: the countries of each Apple subsidiary                        *)
(***************************************************************************)
australia ==
    { "AU", "NZ" }

canada ==
    { "CA" }

europe ==
    { "AF", "AL", "DZ", "AO", "AM", "AT", "AZ", "BH", "BY", "BE", "BJ", "BT", "BA", "BW",
      "BN", "BG", "BF", "KH", "CM", "CV", "TD", "CN", "CD", "CG", "CI", "HR", "CY", "CZ",
      "DK", "EG", "EE", "FJ", "FI", "FR", "GA", "GM", "GE", "DE", "GH", "GR", "GW", "HK",
      "HU", "IS", "IN", "ID", "IQ", "IE", "IL", "IT", "JO", "KZ", "KE", "KR", "XK", "KW",
      "KG", "LA", "LV", "LB", "LR", "LY", "LT", "LU", "MO", "MK", "MG", "MW", "MY", "MV",
      "ML", "MT", "MR", "MU", "FM", "MD", "MN", "ME", "MA", "MZ", "MM", "NA", "NR", "NP",
      "NL", "NE", "NG", "NO", "OM", "PK", "PW", "PG", "PH", "PL", "PT", "QA", "RO", "RU",
      "RW", "ST", "SA", "SN", "RS", "SC", "SL", "SG", "SK", "SI", "SB", "ZA", "ES", "LK",
      "SZ", "SE", "CH", "TW", "TJ", "TZ", "TH", "TO", "TN", "TR", "TM", "AE", "UG", "UA",
      "GB", "UZ", "VU", "VN", "YE", "ZM", "ZW" }

japan ==
    { "JP" }

us ==
    { "AR", "AI", "AG", "BS", "BB", "BZ", "BM", "BO", "BR", "VG", "KY", "CL", "CO", "CR",
      "DM", "DO", "EC", "SV", "GD", "GY", "GT", "HN", "JM", "MX", "MS", "NI", "PA", "PY",
      "PE", "KN", "LC", "VC", "SR", "TT", "TC", "UY", "VE", "US" }

\* apple.corporation(cc); "LookupError" when no subsidiary handles cc
corporation(cc) ==
    IF cc \in australia THEN "AU"
    ELSE IF cc \in canada THEN "CA"
    ELSE IF cc \in europe THEN "EU"
    ELSE IF cc \in japan THEN "JP"
    ELSE IF cc \in us THEN "US"
    ELSE "LookupError"

(***************************************************************************)
(* corporations_with_sales_by_country, print_sales_by_corporation and      *)
(* eu_sales_amount                                                         *)
(***************************************************************************)
\* AssignCountries that leaves out a country that no subsidiary handles
RECURSIVE AssignCountries_SkipUnknown(_, _)
AssignCountries_SkipUnknown(corporations, sales) ==
    IF sales = <<>> THEN [raised |-> FALSE, corporations |-> corporations]
    ELSE LET country == Head(sales)[1]
             corp == corporation(country)
         IN  IF corp = "LookupError" THEN AssignCountries_SkipUnknown(corporations, Tail(sales))
             ELSE AssignCountries_SkipUnknown(
                      DictSet(corporations, corp,
                              DictSet(IF DictHas(corporations, corp)
                                      THEN DictGet(corporations, corp) ELSE <<>>,
                                      country, Head(sales)[2])),
                      Tail(sales))

\* lines 78-83; raised is TRUE when apple.corporation raises LookupError
RECURSIVE AssignCountries(_, _)
AssignCountries(corporations, sales) ==
    IF sales = <<>> THEN [raised |-> FALSE, corporations |-> corporations]
    ELSE LET country == Head(sales)[1]
             corp == corporation(country)
         IN  IF corp = "LookupError" THEN [raised |-> TRUE, corporations |-> <<>>]
             ELSE AssignCountries(
                      DictSet(corporations, corp,
                              DictSet(IF DictHas(corporations, corp)
                                      THEN DictGet(corporations, corp) ELSE <<>>,
                                      country, Head(sales)[2])),
                      Tail(sales))

corporations_with_sales_by_country(sales) == AssignCountries(<<>>, sales)

\* RateAndTax with a default tax factor of zero for a key without entry
RateAndTax_ZeroTax(currency_data, country_currency) ==
    IF DictHas(currency_data, country_currency)
    THEN LET rec == DictGet(currency_data, country_currency) IN <<rec[1], rec[2]>>
    ELSE <<DecOne, DecZero>>

\* lines 263-265: exchange rate and tax factor of a currency key
RateAndTax(currency_data, country_currency) ==
    IF DictHas(currency_data, country_currency)
    THEN LET rec == DictGet(currency_data, country_currency) IN <<rec[1], rec[2]>>
    ELSE <<DecOne, DecOne>>

\* line 272 and 325: amount -= amount - amount * tax_factor
NetAmount(amount, tax_factor) == DecSub(amount, DecSub(amount, DecMul(amount, tax_factor)))

\* lines 268-282: the product lines of a country and the country's sum
RECURSIVE ProductLines(_, _, _, _)
ProductLines(products_sold, exchange_rate, tax_factor, acc) ==
    IF products_sold = <<>> THEN acc
    ELSE LET quantity == Head(products_sold)[2][1]
             amount == NetAmount(Head(products_sold)[2][2], tax_factor)
         IN  ProductLines(Tail(products_sold), exchange_rate, tax_factor,
                 [ lines |-> Append(acc.lines,
                                 [ product |-> Head(products_sold)[1],
                                   quantity |-> quantity,
                                   amount |-> amount,
                                   amount_in_local_currency |-> DecMul(amount, exchange_rate) ]),
                   country_sum |-> DecAdd(acc.country_sum, amount) ])

\* lines 255-290: one country of a corporation
CountrySales(countrycode, products_sold, currencies, currency_data) ==
    LET country_currency == DictGet(currencies, countrycode)
        rt == RateAndTax(currency_data, country_currency)
        pl == ProductLines(products_sold, rt[1], rt[2],
                           [lines |-> <<>>, country_sum |-> DecZero])
    IN  [ countrycode |-> countrycode,
          country_currency |-> country_currency,
          exchange_rate |-> rt[1],
          tax_factor |-> rt[2],
          lines |-> pl.lines,
          country_sum |-> pl.country_sum,
          country_sum_in_local_currency |-> DecMul(pl.country_sum, rt[1]) ]

\* lines 255-290: the countries of a corporation, in the order of the dict
RECURSIVE CountriesSales(_, _, _)
CountriesSales(countries, currencies, currency_data) ==
    IF countries = <<>> THEN <<>>
    ELSE <<CountrySales(Head(countries)[1], Head(countries)[2], currencies, currency_data)>>
         \o CountriesSales(Tail(countries), currencies, currency_data)

\* lines 294-304: the adjustments of the currencies, in the given order
RECURSIVE Adjustments(_, _)
Adjustments(keys, currency_data) ==
    IF keys = <<>> THEN <<>>
    ELSE LET currency == Head(keys)
             rest == Adjustments(Tail(keys), currency_data)
         IN  IF ~DictHas(currency_data, currency) THEN rest
             ELSE LET rec == DictGet(currency_data, currency)
                  IN  IF rec[3] = DecZero THEN rest
                      ELSE << [ currency |-> currency,
                                adjustments |-> rec[3],
                                adjustments_in_local_currency |-> DecMul(rec[3], rec[1]) ] >>
                           \o rest

\* corporation_sum += ... over a sequence of Decimals, in its order
RECURSIVE AddAll(_, _)
AddAll(sum, terms) ==
    IF terms = <<>> THEN sum ELSE AddAll(DecAdd(sum, Head(terms)), Tail(terms))

\* line 293: the currency keys of the countries of a corporation
CurrenciesIn(countries, currencies) ==
    {DictGet(currencies, countries[i][1]) : i \in 1..Len(countries)}

\* CorporationSales that applies the adjustments of a currency once for each country
CorporationSales_PerCountry(corp, countries, currencies, currency_data) ==
    LET cs == CountriesSales(countries, currencies, currency_data)
        adj == Adjustments([i \in 1..Len(countries) |-> DictGet(currencies, countries[i][1])],
                           currency_data)
    IN  [ corporation |-> corp,
          countries |-> cs,
          adjustments |-> adj,
          total |-> AddAll(AddAll(DecZero,
                               [i \in 1..Len(cs) |-> cs[i].country_sum_in_local_currency]),
                           [i \in 1..Len(adj) |-> adj[i].adjustments_in_local_currency]) ]

\* lines 252-306: the section that print_sales_by_corporation prints for one corporation
CorporationSales(corp, countries, currencies, currency_data) ==
    LET cs == CountriesSales(countries, currencies, currency_data)
        adj == Adjustments(StrSorted(CurrenciesIn(countries, currencies)), currency_data)
        corporation_sum ==
            AddAll(AddAll(DecZero, [i \in 1..Len(cs) |-> cs[i].country_sum_in_local_currency]),
                   [i \in 1..Len(adj) |-> adj[i].adjustments_in_local_currency])
    IN  [ corporation |-> corp,
          countries |-> cs,
          adjustments |-> adj,
          total |-> corporation_sum ]

\* lines 323-326: eu_sum += amount * exchange_rate, product by product
RECURSIVE EuProducts(_, _, _, _)
EuProducts(eu_sum, products_sold, exchange_rate, tax_factor) ==
    IF products_sold = <<>> THEN eu_sum
    ELSE EuProducts(
             DecAdd(eu_sum, DecMul(NetAmount(Head(products_sold)[2][2], tax_factor),
                                   exchange_rate)),
             Tail(products_sold), exchange_rate, tax_factor)

\* lines 314-326: the loop over the countries of the EU subsidiary
RECURSIVE EuCountries(_, _, _, _)
EuCountries(eu_sum, countries, currencies, currency_data) ==
    IF countries = <<>> THEN eu_sum
    ELSE LET rt == RateAndTax(currency_data, DictGet(currencies, Head(countries)[1]))
         IN  EuCountries(EuProducts(eu_sum, Head(countries)[2], rt[1], rt[2]),
                         Tail(countries), currencies, currency_data)

\* lines 330-334: eu_sum += adjustments * exchange_rate, in the order of the set
RECURSIVE EuAdjustments(_, _, _)
EuAdjustments(eu_sum, keys, currency_data) ==
    IF keys = <<>> THEN eu_sum
    ELSE IF ~DictHas(currency_data, Head(keys))
    THEN EuAdjustments(eu_sum, Tail(keys), currency_data)
    ELSE LET rec == DictGet(currency_data, Head(keys))
         IN  EuAdjustments(DecAdd(eu_sum, DecMul(rec[3], rec[1])), Tail(keys), currency_data)

\* the orders in which a set of str can be iterated (the order depends on the
\* hashes of the strings, which Python randomises for each process)
SetOrders(S) ==
    {o \in [1..Cardinality(S) -> S] : \A i, j \in 1..Cardinality(S) : i # j => o[i] # o[j]}

\* lines 311-336, for the EU countries and one order of the currency set
eu_sales_amount(countries, currencies, currency_data, order) ==
    EuAdjustments(EuCountries(DecZero, countries, currencies, currency_data),
                  order, currency_data)

\* line 346: round(eu_sales_amount), the nearest integer, the even one of two
round(x) ==
    LET a == Abs(x[1])
    IN  IF x[2] >= 0 THEN x[1] * Pow10(x[2])
        ELSE IF -x[2] > NumDigits(a) THEN 0
        ELSE LET d == Pow10(-x[2])
                 q == a \div d
                 r == a % d
                 up == 2 * r > d \/ (2 * r = d /\ q % 2 = 1)
             IN  Sgn(x[1]) * (IF up THEN q + 1 ELSE q)

\* lines 338-381: no file for an amount of zero (line 342)
steuerapp_esl_import(amount) ==
    IF amount = DecZero THEN [written |-> FALSE, UmsatzSumme |-> 0]
    ELSE [written |-> TRUE, UmsatzSumme |-> round(amount)]

(***************************************************************************)
(* The run of slicer.py (lines 396-408) on one input: the rate file, the   *)
(* directory listing with the rows of each file, and the command line.     *)
(***************************************************************************)
VARIABLES
    input,          \* the files and arguments of the run
    pc,             \* where the run is
    rate,           \* the locals of parse_currency_data
    currency_data,  \* the global that line 398 sets
    scan,           \* parse_financial_reports: position in the listing and in the open file
    sales,          \* countries and currencies of parse_financial_reports
    corporations,   \* print_sales_by_corporation: the result of line 247
    printed,        \* what print_sales_by_corporation has printed, one section per corporation
    eu,             \* eu_sales_amount: its result
    exc,            \* the exception that ended the run, "" for none
    plist           \* steuerapp_esl_import: the import file for Steuererklaerung.app

vars == <<input, pc, rate, currency_data, scan, sales, corporations, printed, eu, exc, plist>>

ScanStart == [file |-> 0, open |-> FALSE, row |-> 0, opened |-> 0, rows_read |-> 0]

SalesStart == [countries |-> <<>>, currencies |-> <<>>]

EuStart == [called |-> FALSE, value |-> DecZero]

PlistStart == [written |-> FALSE, UmsatzSumme |-> 0]

InitOn(inputs) ==
    /\ input \in inputs
    /\ pc = "open_rates"
    /\ rate = RateStart
    /\ currency_data = <<>>
    /\ scan = ScanStart
    /\ sales = SalesStart
    /\ corporations = [next |-> 0, dict |-> <<>>]
    /\ printed = <<>>
    /\ eu = EuStart
    /\ exc = ""
    /\ plist = PlistStart

\* no report is open, or the rows of the open report are all read
NoRowLeft == IF scan.open THEN scan.row = Len(input.dir[scan.file].rows) ELSE TRUE

\* the loop over the rows of the rate file is over
NoRateRowLeft == IF rate.status = "break" THEN TRUE ELSE rate.line = Len(input.rate_file.rows)

\* lines 97-102: open the rate file
OpenRateFile ==
    /\ pc = "open_rates"
    /\ pc' = IF input.rate_file.exists THEN "rates" ELSE "exit1"
    /\ UNCHANGED <<input, rate, currency_data, scan, sales, corporations, printed, eu, exc, plist>>

\* lines 104-183: one row of the rate file
ReadRateRow ==
    /\ pc = "rates"
    /\ rate.status = "loop"
    /\ rate.line < Len(input.rate_file.rows)
    /\ LET st == RateRow(rate, input.rate_file.rows[rate.line + 1])
       IN  /\ rate' = st
           /\ pc' = IF st.status \in {"loop", "break"} THEN "rates"
                    ELSE IF st.status = "exit" THEN "exit1"
                    ELSE "raised"
           /\ exc' = IF st.status \in {"loop", "break", "exit"} THEN "" ELSE st.status
    /\ UNCHANGED <<input, currency_data, scan, sales, corporations, printed, eu, plist>>

\* lines 185-187 and 398: the loop is over, the table becomes currency_data
ReturnCurrencyData ==
    /\ pc = "rates"
    /\ NoRateRowLeft
    /\ currency_data' = rate.result
    /\ pc' = "reports"
    /\ UNCHANGED <<input, rate, scan, sales, corporations, printed, eu, exc, plist>>

\* lines 196-201 and 235: the next entry of the listing; a report is opened
NextFile ==
    /\ pc = "reports"
    /\ NoRowLeft
    /\ scan.file < Len(input.dir)
    /\ LET isreport == IsScanned(input.dir[scan.file + 1].name)
       IN  scan' = [scan EXCEPT !.file = @ + 1,
                                !.open = isreport,
                                !.row = 0,
                                !.opened = IF isreport THEN @ + 1 ELSE @]
    /\ UNCHANGED <<input, pc, rate, currency_data, sales, corporations, printed, eu, exc, plist>>

\* lines 202-233: one row of the open report
ReadSalesRow ==
    /\ pc = "reports"
    /\ scan.open
    /\ scan.row < Len(input.dir[scan.file].rows)
    /\ scan' = [scan EXCEPT !.row = @ + 1, !.rows_read = @ + 1]
    /\ LET row == input.dir[scan.file].rows[scan.row + 1]
       IN  IF SalesFieldError(row)
           THEN /\ pc' = "raised"
                /\ exc' = "InvalidOperation"
                /\ sales' = sales
           ELSE /\ pc' = pc
                /\ exc' = exc
                /\ sales' = SalesRow(sales, input.dir[scan.file].name, row)
    /\ UNCHANGED <<input, rate, currency_data, corporations, printed, eu, plist>>

\* lines 237-242: the listing is over
ReturnReports ==
    /\ pc = "reports"
    /\ NoRowLeft
    /\ scan.file = Len(input.dir)
    /\ scan' = [scan EXCEPT !.open = FALSE]
    /\ pc' = IF sales.countries = <<>> THEN "exit1" ELSE "assign"
    /\ UNCHANGED <<input, rate, currency_data, sales, corporations, printed, eu, exc, plist>>

\* AssignCorporations that looks a country up only when its section is printed: the
\* sections of the countries that a subsidiary handles are out when the lookup fails
AssignCorporations_PrintsKnown ==
    /\ pc = "assign"
    /\ LET r == corporations_with_sales_by_country(sales.countries)
           known == AssignCountries_SkipUnknown(<<>>, sales.countries).corporations
       IN  /\ corporations' = [next |-> 0, dict |-> r.corporations]
           /\ pc' = IF r.raised THEN "raised" ELSE "print"
           /\ exc' = IF r.raised THEN "LookupError" ELSE ""
           /\ printed' = IF r.raised
                         THEN [i \in 1..Len(known) |->
                                  CorporationSales(known[i][1], known[i][2],
                                                   sales.currencies, currency_data)]
                         ELSE printed
    /\ UNCHANGED <<input, rate, currency_data, scan, sales, eu, plist>>

\* line 247: the countries are assigned to their corporations
AssignCorporations ==
    /\ pc = "assign"
    /\ LET r == corporations_with_sales_by_country(sales.countries)
       IN  /\ corporations' = [next |-> 0, dict |-> r.corporations]
           /\ pc' = IF r.raised THEN "raised" ELSE "print"
           /\ exc' = IF r.raised THEN "LookupError" ELSE ""
    /\ UNCHANGED <<input, rate, currency_data, scan, sales, printed, eu, plist>>

\* lines 249-306: the next corporation of the loop
PrintCorporation ==
    /\ pc = "print"
    /\ corporations.next < Len(corporations.dict)
    /\ LET item == corporations.dict[corporations.next + 1]
           skip == input.selected_corporations # {}
                   /\ item[1] \notin input.selected_corporations
       IN  printed' = IF skip THEN printed
                      ELSE Append(printed, CorporationSales(item[1], item[2],
                                                            sales.currencies, currency_data))
    /\ corporations' = [corporations EXCEPT !.next = @ + 1]
    /\ UNCHANGED <<input, pc, rate, currency_data, scan, sales, eu, exc, plist>>

\* line 406: print_sales_by_corporation has returned
EndPrint ==
    /\ pc = "print"
    /\ corporations.next = Len(corporations.dict)
    /\ pc' = IF input.steuerapp_esl THEN "esl" ELSE "done"
    /\ UNCHANGED <<input, rate, currency_data, scan, sales, corporations, printed, eu, exc, plist>>

\* lines 308-336 and 406: eu_sales_amount(sales, currencies)
EuSalesAmount ==
    /\ pc = "esl"
    /\ LET r == corporations_with_sales_by_country(sales.countries)
       IN  IF ~DictHas(r.corporations, "EU")
           THEN /\ pc' = "raised"
                /\ exc' = "KeyError"
                /\ eu' = eu
           ELSE \E order \in SetOrders(CurrenciesIn(DictGet(r.corporations, "EU"),
                                                    sales.currencies)) :
                    /\ eu' = [called |-> TRUE,
                              value |-> eu_sales_amount(DictGet(r.corporations, "EU"),
                                                        sales.currencies, currency_data, order)]
                    /\ pc' = "import"
                    /\ exc' = ""
    /\ UNCHANGED <<input, rate, currency_data, scan, sales, corporations, printed, plist>>

\* lines 338-381 and 406: steuerapp_esl_import(eu_sales_amount, date_range); nothing is
\* written when the amount is zero, else the file holds the amount rounded to an integer
SteuerappEslImport ==
    /\ pc = "import"
    /\ plist' = steuerapp_esl_import(eu.value)
    /\ pc' = "done"
    /\ UNCHANGED <<input, rate, currency_data, scan, sales, corporations, printed, eu, exc>>

Next ==
    \/ OpenRateFile
    \/ ReadRateRow
    \/ ReturnCurrencyData
    \/ NextFile
    \/ ReadSalesRow
    \/ ReturnReports
    \/ AssignCorporations
    \/ PrintCorporation
    \/ EndPrint
    \/ EuSalesAmount
    \/ SteuerappEslImport

(***************************************************************************)
(* Inputs.  A rate file is built from the column counts of its lines 1 and *)
(* 3 and from the content of its data rows; a data row holds the label and *)
(* the four amounts, at the columns of the layout: without the balance     *)
(* column (balance = 0) at columns 3, 5, 7 and 9 of 12, with the balance   *)
(* column at index balance one further right, of 13.                       *)
(***************************************************************************)
Filler == Num(<<9, 0>>)

HeaderRow(n) == [i \in 1..n |-> Txt(<<"h">>)]

InsertAt(row, i, f) == SubSeq(row, 1, i) \o <<f>> \o SubSeq(row, i + 1, Len(row))

DataRow(c, balance) ==
    LET base == << Txt(c.label), Filler, Filler, c.amount_pre_tax, Filler, c.adjustments,
                   Filler, c.amount_after_tax, Filler, c.earnings, Filler, Filler >>
    IN  IF balance = 0 THEN base ELSE InsertAt(base, balance, Filler)

RateFile(n1, n3, balance, content) ==
    [ exists |-> TRUE,
      n1 |-> n1, n3 |-> n3, balance |-> balance, content |-> content,
      rows |-> <<HeaderRow(n1), HeaderRow(2), HeaderRow(n3)>>
               \o [i \in 1..Len(content) |-> DataRow(content[i], balance)] ]

\* a file as App Store Connect writes it: 13 columns in line 1, 12 columns in line 3
\* and in the data rows, or 13 with the balance column
GoodRateFile(balance, content) ==
    RateFile(13, IF balance = 0 THEN 12 ELSE 13, balance, content)

MissingRateFile ==
    [exists |-> FALSE, n1 |-> 0, n3 |-> 0, balance |-> 0, content |-> <<>>, rows |-> <<>>]

Content(label, pre, adj, aft, earn) ==
    [ label |-> label, amount_pre_tax |-> Num(pre), adjustments |-> Num(adj),
      amount_after_tax |-> Num(aft), earnings |-> Num(earn) ]

SeqsUpTo(S, n) == UNION {[1..k -> S] : k \in 0..n}

LabelEUR == <<"E","u","r","o","-","Z","o","n","e"," ","(","E","U","R",")">>

LabelUSDWW == <<"R","e","s","t"," ","o","f"," ","W","o","r","l","d"," ","(","U","S","D",")">>

LabelTotal == <<"T","o","t","a","l">>

EUR == <<"E","U","R">>

USDWW == USD \o <<"W","W">>

FileWW == <<"a","_","W","W",".","t","x","t">>

FileUS == <<"a","_","U","S",".","t","x","t">>

FileEU == <<"a","_","E","U",".","t","x","t">>

FileNotes == <<"n","o","t","e","s",".","t","x","t">>

Sale(countrycode, product, quantity, amount, currency) ==
    [ date |-> TRUE, numeric |-> TRUE, countrycode |-> countrycode, product |-> product,
      quantity |-> quantity, amount |-> amount, currency |-> currency ]

\* a sales row whose amount field is not a number
BadAmountSale(countrycode, product, quantity, currency) ==
    [Sale(countrycode, product, quantity, DecZero, currency) EXCEPT !.numeric = FALSE]

\* a line that does not start with a date (the header of a report)
HeaderLine ==
    [ date |-> FALSE, numeric |-> TRUE, countrycode |-> "", product |-> "", quantity |-> 0,
      amount |-> DecZero, currency |-> <<>> ]

File(name, rows) == [name |-> name, rows |-> rows]

Input(rate_file, dir, esl, selected) ==
    [ rate_file |-> rate_file, dir |-> dir, steuerapp_esl |-> esl,
      selected_corporations |-> selected ]

(***************************************************************************)
(* SpecRates: runs over rate files with at most MaxDataRows data rows, in  *)
(* both layouts, and one report                                            *)
(***************************************************************************)
MaxDataRows == 2

\* pre-tax amount, adjustments, post-tax amount, earnings
RateAmountsCommon ==
    { << <<1, 1>>, <<0, 0>>,  <<7, 0>>,  <<1, 0>> >>,
      << <<1, 1>>, <<-5, 0>>, <<7, 0>>,  <<1, 0>> >> }

RateAmountsRare ==
    { << <<3, 0>>, <<0, 0>>,  <<2, 0>>,  <<1, 0>> >>,
      << <<1, 1>>, <<0, 0>>,  <<3, 1>>,  <<3, 0>> >>,
      << <<1, 1>>, <<0, 0>>,  <<-5, 0>>, <<-1, 0>> >>,
      << <<1, 1>>, <<-5, 0>>, <<0, 0>>,  <<0, 0>> >>,
      << <<0, 0>>, <<-5, 0>>, <<0, 0>>,  <<0, 0>> >>,
      << <<0, 0>>, <<0, 0>>,  <<7, 0>>,  <<1, 0>> >>,
      << <<0, 0>>, <<-5, 0>>, <<-5, 0>>, <<-1, 0>> >> }

RateContents ==
    {Content(LabelEUR, a[1], a[2], a[3], a[4]) : a \in RateAmountsCommon \cup RateAmountsRare}
    \cup {Content(LabelUSDWW, a[1], a[2], a[3], a[4]) : a \in RateAmountsCommon}
    \cup { Content(LabelTotal, <<1, 1>>, <<0, 0>>, <<7, 0>>, <<1, 0>>),
           Content(<<>>, <<0, 0>>, <<0, 0>>, <<0, 0>>, <<0, 0>>),
           [Content(LabelEUR, <<1, 1>>, <<0, 0>>, <<7, 0>>, <<1, 0>>)
               EXCEPT !.adjustments = Txt(<<"-">>)] }

OneReport == << File(FileWW, <<HeaderLine, Sale("IN", "P1", 1, <<5, -2>>, USD)>>) >>

InputsRates ==
    { Input(GoodRateFile(b, c), OneReport, TRUE, {}) :
          b \in {0, 1, 3}, c \in SeqsUpTo(RateContents, MaxDataRows) }
    \cup { Input(RateFile(13, n3, 0, c), OneReport, TRUE, {}) :
              n3 \in {11, 14}, c \in SeqsUpTo(RateContents, 1) }

InitRates == InitOn(InputsRates)

SpecRates == InitRates /\ [][Next]_vars

(***************************************************************************)
(* Properties of parse_currency_data, under SpecRates                      *)
(***************************************************************************)
\* the loop is about to read a data row (a row after line 3)
ReadsDataRow ==
    /\ pc = "rates"
    /\ rate.status = "loop"
    /\ rate.line >= 3
    /\ rate.line < Len(input.rate_file.rows)

\* the content of the data row that line number n holds
ContentOfLine(n) == input.rate_file.content[n - 3]

\* a data row with a currency code in its label and four numbers
IsAmountsRow(c) ==
    /\ CurrencySymbol(c.label) # <<>>
    /\ c.amount_pre_tax.num /\ c.adjustments.num /\ c.amount_after_tax.num /\ c.earnings.num

\* tax withheld without sales: no pre-tax amount, but a post-tax amount net of adjustments
WithheldWithoutSales(c) ==
    /\ IsAmountsRow(c)
    /\ c.amount_pre_tax.v = DecZero
    /\ DecSub(c.amount_after_tax.v, c.adjustments.v) # DecZero

\* the row is skipped with a warning and the loop goes on
SkippedWithWarning ==
    /\ rate'.warnings = rate.warnings + 1
    /\ rate'.result = rate.result
    /\ rate'.status = "loop"
    /\ pc' = "rates"

\* C5: every record of the table of an accepted rate file has a tax factor in [0, 1],
\* whatever the pre-tax amount, the adjustments and the post-tax amount of its row are
C5_TaxFactorInUnitInterval ==
    \A i \in 1..Len(rate.result) :
        /\ DecLeq(DecZero, rate.result[i][2][2])
        /\ DecLeq(rate.result[i][2][2], DecOne)

\* C6: a line 3 of 13 columns shifts the four column indices by one, once and for the
\* rest of the file; the table, the warnings and the outcome of the rows read so far
\* are those of the same content in the other layout; any other width than 12 or 13
\* of line 3 ends the run at line 3
C6_BalanceColumnShift ==
    rate.line >= 3 =>
        LET f  == input.rate_file
            n3 == Len(f.rows[3])
            other == GoodRateFile(IF f.balance = 0 THEN 3 ELSE 0, f.content)
            o == RateLoop(RateStart, SubSeq(other.rows, 1, rate.line))
            shift == IF n3 = 13 THEN 1 ELSE 0
        IN  IF n3 \notin {12, 13}
            THEN pc = "exit1" /\ rate.status = "exit" /\ rate.line = 3
            ELSE /\ rate.column_index_amount_pre_tax = 3 + shift
                 /\ rate.column_index_adjustments = 5 + shift
                 /\ rate.column_index_amount_after_tax = 7 + shift
                 /\ rate.column_index_earnings = 9 + shift
                 /\ n3 = 13 <=> Len(other.rows[3]) = 12
                 /\ o.result = rate.result
                 /\ o.warnings = rate.warnings
                 /\ o.status = rate.status

\* two data rows of a file with the balance column are read and recorded
C6_Witness ==
    /\ rate.line >= 5
    /\ input.rate_file.balance # 0
    /\ Len(input.rate_file.rows[3]) = 13
    /\ rate.column_index_amount_pre_tax = 4
    /\ Len(rate.result) >= 2

\* C7 as stated: every data row with a zero pre-tax amount and a non-zero post-tax
\* amount net of adjustments is skipped with a warning, writes no entry, and the
\* loop goes on
C7_WithheldRowSkipped ==
    [][ (ReadsDataRow /\ WithheldWithoutSales(ContentOfLine(rate.line + 1)))
            => SkippedWithWarning ]_vars

\* C7 amended: the same for the rows whose post-tax amount itself is not zero (a row
\* with a zero post-tax amount is recorded with exchange rate 0 and tax factor 1,
\* lines 161-163)
C7_WithheldRowWithPayoutSkipped ==
    [][ ( /\ ReadsDataRow
          /\ WithheldWithoutSales(ContentOfLine(rate.line + 1))
          /\ ContentOfLine(rate.line + 1).amount_after_tax.v # DecZero )
            => SkippedWithWarning ]_vars

\* such a row has just been read: a warning is counted, its key is not in the table,
\* and the loop goes on
C7_Witness ==
    /\ pc = "rates"
    /\ rate.status = "loop"
    /\ rate.line >= 4
    /\ WithheldWithoutSales(ContentOfLine(rate.line))
    /\ ContentOfLine(rate.line).amount_after_tax.v # DecZero
    /\ rate.warnings >= 1
    /\ ~DictHas(rate.result, RateKey(ContentOfLine(rate.line).label))

\* the row is recorded under the key of its label and the loop goes on
RecordedInTable ==
    /\ DictHas(rate'.result, RateKey(ContentOfLine(rate.line + 1).label))
    /\ rate'.warnings = rate.warnings
    /\ rate'.status = "loop"
    /\ pc' = "rates"

\* C12: every data row with a currency code and four numbers ends recorded in the
\* table or skipped with a warning, and the division tax / pre-tax amount of line 181
\* is never evaluated with a pre-tax amount of zero, also when the post-tax amount
\* equals non-zero adjustments
C12_RowRecordedOrSkipped ==
    [][ (ReadsDataRow /\ IsAmountsRow(ContentOfLine(rate.line + 1)))
            => /\ RecordedInTable \/ SkippedWithWarning
               /\ rate'.status # "DivisionUndefined"
               /\ exc' = "" ]_vars

(***************************************************************************)
(* SpecSales: runs over listings of reports that hold at most MaxSalesRows *)
(* sales rows altogether, in every order of the files and of the rows      *)
(***************************************************************************)
MaxSalesRows == 3

\* the listing made of the given rows, each with the name of its file: rows that
\* follow each other under one name are the rows of one file, after its header line
RECURSIVE ListingOf(_)
ListingOf(tagged) ==
    IF tagged = <<>> THEN <<>>
    ELSE LET rest == ListingOf(Tail(tagged))
             name == Head(tagged)[1]
             row  == Head(tagged)[2]
         IN  IF rest # <<>> /\ rest[1].name = name
             THEN <<File(name, <<HeaderLine, row>> \o Tail(rest[1].rows))>> \o Tail(rest)
             ELSE <<File(name, <<HeaderLine, row>>)>> \o rest

\* no two files of a listing have the same name
DistinctNames(dir) == \A i, j \in 1..Len(dir) : dir[i].name = dir[j].name => i = j

Listings(names, rows, n) ==
    {d \in {ListingOf(t) : t \in SeqsUpTo(names \X rows, n)} : DistinctNames(d)}

SalesRows ==
    { Sale("IN", "P1", 1, <<5, -2>>, USD),
      Sale("IN", "P1", 2, <<1, -1>>, USD),
      Sale("DE", "P2", 3, <<99, -2>>, EUR) }

RateFileWW ==
    GoodRateFile(0, << Content(LabelUSDWW, <<1, 1>>, <<-5, 0>>, <<7, 0>>, <<1, 0>>) >>)

InputsSales ==
    { Input(RateFileWW, d, TRUE, {}) : d \in Listings({FileWW, FileUS}, SalesRows, MaxSalesRows) }

InitSales == InitOn(InputsSales)

SpecSales == InitSales /\ [][Next]_vars

(***************************************************************************)
(* Properties of parse_financial_reports, under SpecSales                  *)
(***************************************************************************)
\* the positions <<file, row>> of the sales rows that the scan has read so far
RowsRead ==
    { p \in UNION {{<<f, r>> : r \in 1..Len(input.dir[f].rows)} : f \in 1..scan.file} :
          /\ IsScanned(input.dir[p[1]].name)
          /\ p[1] < scan.file \/ p[2] <= scan.row
          /\ input.dir[p[1]].rows[p[2]].date }

RowAt(p) == input.dir[p[1]].rows[p[2]]

\* the amount of a row in hundredths (amounts of the reports have two decimals)
RowHundredths(p) == RowAt(p).amount[1] * Pow10(RowAt(p).amount[2] + 2)

\* the sum of the quantities of the rows at a set of positions
RECURSIVE SumQuantity(_)
SumQuantity(P) ==
    IF P = {} THEN 0
    ELSE LET p == CHOOSE x \in P : TRUE IN RowAt(p).quantity + SumQuantity(P \ {p})

\* the exact sum of the amounts of the rows at a set of positions, in hundredths
RECURSIVE SumHundredths(_)
SumHundredths(P) ==
    IF P = {} THEN 0
    ELSE LET p == CHOOSE x \in P : TRUE IN RowHundredths(p) + SumHundredths(P \ {p})

\* C2: the mapping holds, for each pair of country and product that has rows, the sum
\* of the quantities and the exact sum of the amounts of the rows of the pair read so
\* far, whatever the order of the files and of the rows is
C2_SumsOfRows ==
    LET pairs == {<<RowAt(p).countrycode, RowAt(p).product>> : p \in RowsRead}
        of(cp) == {p \in RowsRead : RowAt(p).countrycode = cp[1] /\ RowAt(p).product = cp[2]}
    IN  /\ \A cp \in pairs :
              /\ DictHas(sales.countries, cp[1])
              /\ DictHas(DictGet(sales.countries, cp[1]), cp[2])
              /\ DictGet(DictGet(sales.countries, cp[1]), cp[2])
                     = << SumQuantity(of(cp)),
                          DecNorm(SumHundredths(of(cp)), -2) >>
        /\ \A i \in 1..Len(sales.countries) :
              \A j \in 1..Len(sales.countries[i][2]) :
                  <<sales.countries[i][1], sales.countries[i][2][j][1]>> \in pairs

\* the rows of one pair of country and product are read from two files
C2_Witness ==
    /\ pc = "assign"
    /\ scan.opened = 2
    /\ \E p, q \in RowsRead :
          /\ p[1] # q[1]
          /\ RowAt(p).countrycode = RowAt(q).countrycode
          /\ RowAt(p).product = RowAt(q).product
          /\ RowAt(p).amount # RowAt(q).amount
    /\ Cardinality(RowsRead) = 3

(***************************************************************************)
(* SpecAlloc: runs over rate tables with and without the currencies of the *)
(* sales, and over listings of at most MaxAllocRows sales rows of          *)
(* countries that share a currency key, that belong to several             *)
(* subsidiaries, or that no subsidiary handles                             *)
(***************************************************************************)
MaxAllocRows == 3

FileZZ == <<"a","_","Z","Z",".","t","x","t">>

\* rows with the name of their file
AllocRows ==
    { <<FileWW, Sale("IN", "P1", 1, <<5, -2>>, USD)>>,
      <<FileWW, Sale("IN", "P2", 1, <<5, -2>>, USD)>>,
      <<FileWW, Sale("CN", "P1", 2, <<1, -1>>, USD)>>,
      <<FileEU, Sale("DE", "P1", 3, <<99, -2>>, EUR)>>,
      <<FileUS, Sale("US", "P1", 1, <<5, -2>>, USD)>>,
      <<FileZZ, Sale("ZZ", "P1", 1, <<5, -2>>, USD)>> }

AllocListings ==
    {d \in {ListingOf(t) : t \in SeqsUpTo(AllocRows, MaxAllocRows)} : DistinctNames(d)}

AllocRateFiles ==
    { RateFileWW,
      GoodRateFile(0, << Content(LabelUSDWW, <<1, 1>>, <<-5, 0>>, <<7, 0>>, <<1, 0>>),
                         Content(LabelEUR, <<3, 0>>, <<5, -1>>, <<2, 0>>, <<1, 0>>) >>),
      GoodRateFile(0, <<>>) }

InputsAlloc == {Input(f, d, TRUE, {}) : f \in AllocRateFiles, d \in AllocListings}

InitAlloc == InitOn(InputsAlloc)

SpecAlloc == InitAlloc /\ [][Next]_vars

(***************************************************************************)
(* Properties of the allocation, under SpecAlloc                           *)
(***************************************************************************)
\* the countries of a subsidiary, from the tables of apple.py
EntityCountries(e) ==
    CASE e = "AU" -> australia
      [] e = "CA" -> canada
      [] e = "EU" -> europe
      [] e = "JP" -> japan
      [] e = "US" -> us
      [] OTHER -> {}

Directory == australia \cup canada \cup europe \cup japan \cup us

\* line 247 has been executed
Assigned == pc \in {"print", "esl", "import", "done"} \/ (pc = "raised" /\ exc \in {"LookupError", "KeyError"})

\* the places <<i, j>> of a country in the allocation: item j of corporation i
PlacesOf(c) ==
    { ij \in UNION {{<<i, j>> : j \in 1..Len(corporations.dict[i][2])} :
                        i \in 1..Len(corporations.dict)} :
          corporations.dict[ij[1]][2][ij[2]][1] = c }

\* C3: when every country of the sales is known to the directory, each country is
\* under exactly one entity, the one whose table holds it, with its products
\* unchanged, and the allocation holds no other country; when a country is unknown,
\* the call raises LookupError, returns no allocation, and nothing is printed
C3_PartitionOrLookupError ==
    Assigned =>
        IF \E c \in DictKeySet(sales.countries) : c \notin Directory
        THEN pc = "raised" /\ exc = "LookupError" /\ corporations.dict = <<>> /\ printed = <<>>
        ELSE /\ \A c \in DictKeySet(sales.countries) :
                    /\ Cardinality(PlacesOf(c)) = 1
                    /\ \A ij \in PlacesOf(c) :
                          /\ c \in EntityCountries(corporations.dict[ij[1]][1])
                          /\ corporations.dict[ij[1]][1] = corporation(c)
                          /\ corporations.dict[ij[1]][2][ij[2]][2] = DictGet(sales.countries, c)
             /\ \A i \in 1..Len(corporations.dict) :
                    /\ corporations.dict[i][2] # <<>>
                    /\ DictKeySet(corporations.dict[i][2]) \subseteq DictKeySet(sales.countries)
                    /\ \A k \in 1..Len(corporations.dict) :
                           corporations.dict[k][1] = corporations.dict[i][1] => k = i

\* the sales hold a known and an unknown country, and the call has raised
C3_Witness ==
    /\ pc = "raised"
    /\ exc = "LookupError"
    /\ \E c \in DictKeySet(sales.countries) : c \notin Directory
    /\ \E c \in DictKeySet(sales.countries) : c \in Directory
    /\ corporations.dict = <<>>

\* exchange rate and adjustments of a key of the table
RateOf(key) == IF DictHas(currency_data, key) THEN DictGet(currency_data, key)[1] ELSE DecOne

AdjustmentOf(key) == DictGet(currency_data, key)[3]

\* C1: the total of every entity is the sum of its countries' subtotals, each times the
\* exchange rate of the country, plus one term adjustments x exchange rate for each
\* distinct currency key of its countries that the table holds, however many of its
\* countries share the key
C1_AdjustmentOncePerKey ==
    \A s \in 1..Len(printed) :
        LET sec  == printed[s]
            keys == {sec.countries[i].country_currency : i \in 1..Len(sec.countries)}
                        \cap DictKeySet(currency_data)
            subtotals == [i \in 1..Len(sec.countries) |->
                             DecMul(sec.countries[i].country_sum,
                                    RateOf(sec.countries[i].country_currency))]
        IN  \E order \in SetOrders(keys) :
                sec.total = AddAll(AddAll(DecZero, subtotals),
                                   [k \in 1..Len(order) |->
                                       DecMul(AdjustmentOf(order[k]), RateOf(order[k]))])

\* the section of an entity with two countries that share USDWW, adjustments -5
C1_Witness ==
    \E s \in 1..Len(printed) :
        /\ Len(printed[s].countries) = 2
        /\ \A i \in 1..2 : printed[s].countries[i].country_currency = USDWW
        /\ DictHas(currency_data, USDWW)
        /\ AdjustmentOf(USDWW) = <<-5, 0>>
        /\ Len(printed[s].adjustments) = 1

\* the gross amount of a product of a country, in hundredths
GrossHundredths(c, j) ==
    LET a == DictGet(sales.countries, c)[j][2][2] IN a[1] * Pow10(a[2] + 2)

RECURSIVE SumGross(_, _)
SumGross(c, n) == IF n = 0 THEN 0 ELSE GrossHundredths(c, n) + SumGross(c, n - 1)

\* C8: a country whose currency key the table does not hold is printed with exchange
\* rate 1 and tax factor 1: for each of its products the net amount and the amount
\* in local currency are the gross amount, and its subtotals are the sum of the gross
\* amounts
C8_AbsentKeyIsIdentity ==
    \A s \in 1..Len(printed) : \A i \in 1..Len(printed[s].countries) :
        LET cs == printed[s].countries[i]
            gross == DictGet(sales.countries, cs.countrycode)
        IN  ~DictHas(currency_data, cs.country_currency) =>
                /\ cs.exchange_rate = DecOne
                /\ cs.tax_factor = DecOne
                /\ Len(cs.lines) = Len(gross)
                /\ \A j \in 1..Len(gross) :
                       /\ cs.lines[j].product = gross[j][1]
                       /\ cs.lines[j].quantity = gross[j][2][1]
                       /\ cs.lines[j].amount = gross[j][2][2]
                       /\ cs.lines[j].amount_in_local_currency = gross[j][2][2]
                /\ cs.country_sum = DecNorm(SumGross(cs.countrycode, Len(gross)), -2)
                /\ cs.country_sum_in_local_currency = cs.country_sum

\* DE, P1, quantity 3, amount 0.99, EUR, and no EUR entry: subtotal 0.99 under EU
C8_Witness ==
    /\ ~DictHas(currency_data, EUR)
    /\ \E s \in 1..Len(printed) :
          /\ printed[s].corporation = "EU"
          /\ \E i \in 1..Len(printed[s].countries) :
                /\ printed[s].countries[i].countrycode = "DE"
                /\ printed[s].countries[i].country_currency = EUR
                /\ printed[s].countries[i].lines =
                       << [ product |-> "P1", quantity |-> 3, amount |-> <<99, -2>>,
                            amount_in_local_currency |-> <<99, -2>> ] >>
                /\ printed[s].countries[i].country_sum_in_local_currency = <<99, -2>>

\* C9: whenever sales belong to the EU entity, eu_sales_amount returns the total that
\* print_sales_by_corporation has computed for the EU entity
C9_EuAmountIsEuTotal ==
    (pc = "done" /\ eu.called) =>
        \A s \in 1..Len(printed) : printed[s].corporation = "EU" => eu.value = printed[s].total

(***************************************************************************)
(* Spec: runs over rate files that are missing, pending, invalid or valid, *)
(* over listings with and without reports, and over the command lines      *)
(***************************************************************************)
MainRateFiles ==
    {MissingRateFile}
    \cup {RateFile(n1, 12, 0, c) : n1 \in {10, 12, 13, 14}, c \in SeqsUpTo(RateContents, 1)}

MainListings ==
    { <<>>,
      << File(FileNotes, <<HeaderLine>>), File(currency_data_filename, <<HeaderLine>>) >>,
      << File(FileNotes, <<HeaderLine>>),
         File(FileWW, <<HeaderLine, Sale("IN", "P1", 1, <<5, -2>>, USD)>>),
         File(FileUS, <<HeaderLine, Sale("US", "P1", 1, <<5, -2>>, USD)>>) >> }

InputsMain ==
    { Input(f, d, esl, sel) :
          f \in MainRateFiles, d \in MainListings, esl \in BOOLEAN, sel \in {{}, {"US"}} }

Init == InitOn(InputsMain)

Spec == Init /\ [][Next]_vars

\* C4: when line 1 of the rate file has 10 columns, or any other count than 13, the
\* run exits in parse_currency_data at line 1, and parse_financial_reports is never
\* started: no entry of the listing is taken, no report opened, no sales row read
C4_BadLine1AbortsBeforeReports ==
    (input.rate_file.exists /\ rate.line >= 1 /\ Len(input.rate_file.rows[1]) # 13) =>
        /\ pc = "exit1"
        /\ rate.status = "exit"
        /\ rate.line = 1
        /\ scan = ScanStart
        /\ sales = SalesStart
        /\ printed = <<>>

\* a pending report (10 columns in line 1) next to a listing with reports has been read
C4_Witness ==
    /\ pc = "exit1"
    /\ rate.line = 1
    /\ Len(input.rate_file.rows[1]) = 10
    /\ \E i \in 1..Len(input.dir) : IsScanned(input.dir[i].name) /\ Len(input.dir[i].rows) >= 2
    /\ scan.opened = 0
    /\ scan.rows_read = 0

(***************************************************************************)
(* SpecKeys: runs over one USD row of the rate file, under each label of   *)
(* each region, and one report of a USD country, under the file name of    *)
(* each region                                                             *)
(***************************************************************************)
\* the regions of line 52 and lines 56-58, by their English names
RegionName(region) ==
    CASE region = <<"A","P">> ->
           <<"S","o","u","t","h"," ","A","s","i","a"," ","a","n","d"," ","P","a","c","i","f","i","c">>
      [] region = <<"L","L">> ->
           <<"L","a","t","i","n"," ","A","m","e","r","i","c","a"," ","a","n","d"," ","t","h","e"," ",
             "C","a","r","i","b","b","e","a","n">>
      [] region = <<"W","W">> -> <<"R","e","s","t"," ","o","f"," ","W","o","r","l","d">>
      [] OTHER -> <<"A","m","e","r","i","c","a","s">>

UsdSuffix == <<" ","(","U","S","D",")">>

\* the labels of the USD row of a region: its English name, and texts around each
\* localized spelling of lines 56-58, as spelled there and in lower case
RegionLabels(region) ==
    {RegionName(region) \o UsdSuffix}
    \cup (IF region = <<>> THEN {}
          ELSE UNION { { <<"x"," ">> \o sp \o <<"x">> \o UsdSuffix,
                         <<"x"," ">> \o StrLower(sp) \o <<"x">> \o UsdSuffix } :
                       sp \in usd_regions_localizations(region) })

\* the regions in which Apple bills in USD; <<>> is the default region (Americas)
UsdRegions == {usd_regions[i] : i \in 1..Len(usd_regions)} \cup {<<>>}

\* the report of a region
RegionFile(region) ==
    <<"8","_","0","1","2","4","_">> \o (IF region = <<>> THEN <<"U","S">> ELSE region)
        \o <<".","t","x","t">>

InputsKeys ==
    { Input(GoodRateFile(0, << Content(l, <<1, 1>>, <<-5, 0>>, <<7, 0>>, <<1, 0>>) >>),
            << File(RegionFile(r), <<HeaderLine, Sale("IN", "P1", 1, <<5, -2>>, USD)>>) >>,
            TRUE, {}) :
          l \in UNION {RegionLabels(r1) : r1 \in UsdRegions}, r \in UsdRegions }

InitKeys == InitOn(InputsKeys)

SpecKeys == InitKeys /\ [][Next]_vars

\* the region of the USD row of the rate file, and the region of the report
RowRegion == CHOOSE r \in UsdRegions : input.rate_file.content[1].label \in RegionLabels(r)

ReportRegion == CHOOSE r \in UsdRegions : input.dir[1].name = RegionFile(r)

\* C10: when the report of the USD country and the USD row of the rate file are of
\* the same region, the key of the country is the key of the row, USD plus the
\* region, and the country's section is computed with the row's record
C10_SameRegionSameKey ==
    (pc \in {"assign", "print", "esl", "import", "done"} /\ RowRegion = ReportRegion) =>
        /\ DictGet(sales.currencies, "IN") = USD \o RowRegion
        /\ DictKeys(currency_data) = <<USD \o RowRegion>>
        /\ \A s \in 1..Len(printed) :
              /\ printed[s].countries[1].exchange_rate = DictGet(currency_data, USD \o RowRegion)[1]
              /\ printed[s].countries[1].tax_factor = DictGet(currency_data, USD \o RowRegion)[2]

\* the row of a region under a lower case label and the report of the region are
\* read, and the section is printed
C10_Witness ==
    /\ pc = "done"
    /\ RowRegion = <<"L","L">>
    /\ ReportRegion = <<"L","L">>
    /\ ~StrContains(input.rate_file.content[1].label, <<"L","a","t">>)
    /\ Len(printed) = 1
    /\ printed[1].countries[1].country_currency = USD \o <<"L","L">>


(***************************************************************************)
(* SpecAbort: runs over rate files that are missing, pending, invalid,     *)
(* without a currency code in a label, with a field that is not a number,  *)
(* or valid, and over listings without reports, without sales rows, with   *)
(* an amount that is not a number, with a country that no subsidiary       *)
(* handles, or with sales of known countries only                          *)
(***************************************************************************)
AbortContents ==
    { Content(LabelEUR, <<1, 1>>, <<0, 0>>, <<7, 0>>, <<1, 0>>),
      Content(LabelUSDWW, <<1, 1>>, <<-5, 0>>, <<7, 0>>, <<1, 0>>),
      Content(LabelTotal, <<1, 1>>, <<0, 0>>, <<7, 0>>, <<1, 0>>),
      Content(<<>>, <<0, 0>>, <<0, 0>>, <<0, 0>>, <<0, 0>>),
      [Content(LabelEUR, <<1, 1>>, <<0, 0>>, <<7, 0>>, <<1, 0>>)
          EXCEPT !.adjustments = Txt(<<"-">>)] }

AbortRateFiles ==
    {MissingRateFile}
    \cup {RateFile(n1, 12, 0, <<Content(LabelEUR, <<1, 1>>, <<0, 0>>, <<7, 0>>, <<1, 0>>)>>) :
              n1 \in {10, 12}}
    \cup {RateFile(13, 11, 0, <<Content(LabelEUR, <<1, 1>>, <<0, 0>>, <<7, 0>>, <<1, 0>>)>>)}
    \cup {GoodRateFile(0, c) : c \in SeqsUpTo(AbortContents, MaxDataRows)}

AbortListings ==
    { <<>>,
      << File(FileNotes, <<HeaderLine>>), File(FileWW, <<HeaderLine>>) >>,
      << File(FileEU, <<HeaderLine, Sale("DE", "P1", 3, <<99, -2>>, EUR)>>),
         File(FileWW, <<HeaderLine, Sale("IN", "P1", 1, <<5, -2>>, USD)>>),
         File(FileUS, <<HeaderLine, Sale("US", "P1", 1, <<5, -2>>, USD)>>) >>,
      << File(FileUS, <<HeaderLine, Sale("US", "P1", 1, <<5, -2>>, USD)>>) >>,
      << File(FileEU, <<HeaderLine, Sale("DE", "P1", 3, <<99, -2>>, EUR)>>),
         File(FileZZ, <<HeaderLine, Sale("ZZ", "P1", 1, <<5, -2>>, USD)>>) >>,
      << File(FileZZ, <<HeaderLine, Sale("ZZ", "P1", 1, <<5, -2>>, USD)>>),
         File(FileEU, <<HeaderLine, Sale("DE", "P1", 3, <<99, -2>>, EUR)>>) >>,
      << File(FileEU, <<HeaderLine, Sale("DE", "P1", 3, <<99, -2>>, EUR),
                        BadAmountSale("DE", "P2", 1, EUR)>>),
         File(FileUS, <<HeaderLine, Sale("US", "P1", 1, <<5, -2>>, USD)>>) >> }

InputsAbort ==
    {Input(f, d, esl, {}) : f \in AbortRateFiles, d \in AbortListings, esl \in BOOLEAN}

InitAbort == InitOn(InputsAbort)

SpecAbort == InitAbort /\ [][Next]_vars

\* the run has ended on a fatal condition: sys.exit(1) for a missing rate file, a
\* pending or invalid column count, a label without currency code, or no sales row;
\* InvalidOperation for a field that is not a number; LookupError for a country
\* that no subsidiary handles
FatalAbort ==
    \/ pc = "exit1"
    \/ pc = "raised" /\ exc \in {"InvalidOperation", "LookupError"}

\* C11: a run that ends on a fatal condition (missing rate file, pending or invalid
\* column count, label without currency code, field that is not a number, no sales
\* row, country that no subsidiary handles) has printed no section of a corporation:
\* no address, sales line, subtotal, adjustment or total
C11_FatalBeforeOutput ==
    FatalAbort =>
        /\ printed = <<>>
        /\ corporations.next = 0
        /\ ~eu.called

\* the run has ended on LookupError with sales of a country that a subsidiary handles
\* next to those of the country that none handles, and nothing is printed
C11_Witness ==
    /\ pc = "raised"
    /\ exc = "LookupError"
    /\ \E c \in DictKeySet(sales.countries) : corporation(c) # "LookupError"
    /\ DictKeys(sales.countries)[1] \in europe
    /\ printed = <<>>



\* no country of the sales belongs to the EU subsidiary
NoEuSales == \A c \in DictKeySet(sales.countries) : corporation(c) # "EU"

\* the sections are printed, the ESL import is asked for, and the run is over
EslRunOver ==
    /\ input.steuerapp_esl
    /\ corporations.next = Len(corporations.dict)
    /\ pc = "done" \/ (pc = "raised" /\ exc = "KeyError")

\* C13: when no country of the sales belongs to the EU subsidiary, eu_sales_amount
\* returns 0 and steuerapp_esl_import returns without writing the import file; the
\* run does not fail on the missing EU entry of the partition
C13_NoEuSalesGivesZero ==
    (EslRunOver /\ sales.countries # <<>> /\ NoEuSales) =>
        /\ pc = "done"
        /\ exc = ""
        /\ eu.called
        /\ eu.value = DecZero
        /\ ~plist.written



(***************************************************************************)
(* The currency keys of parse_financial_reports, under SpecSales           *)
(***************************************************************************)
\* the sales rows of a listing, each with the name of its file, in scan order
RECURSIVE TaggedRows(_)
TaggedRows(dir) ==
    IF dir = <<>> THEN <<>>
    ELSE LET f == Head(dir)
             data == SelectSeq(f.rows, LAMBDA r : r.date)
         IN  (IF IsScanned(f.name) THEN [k \in 1..Len(data) |-> <<f.name, data[k]>>] ELSE <<>>)
             \o TaggedRows(Tail(dir))

\* two listings hold the same rows under the same file names, in any order
SameRows(d1, d2) ==
    LET t1 == TaggedRows(d1)
        t2 == TaggedRows(d2)
        Count(t, x) == Cardinality({k \in 1..Len(t) : t[k] = x})
    IN  /\ Len(t1) = Len(t2)
        /\ \A k \in 1..Len(t1) : Count(t1, t1[k]) = Count(t2, t1[k])

\* C14: the currency key that parse_financial_reports returns for a country is the
\* same for every order in which the same rows, each under its file name, are
\* scanned, also when the rows of a country are in files of different region tags
C14_CurrencyKeyOrderIndependent ==
    pc = "assign" =>
        /\ sales = ScanListing(SalesStart, input.dir)
        /\ \A other \in InputsSales :
               SameRows(other.dir, input.dir) =>
                   LET o == ScanListing(SalesStart, other.dir)
                   IN  \A c \in DictKeySet(sales.currencies) :
                           DictGet(o.currencies, c) = DictGet(sales.currencies, c)


====
